---- MODULE Spec2Model ----
(***************************************************************************)
(* Content collection (content_collection.py) and structured summaries     *)
(* (custom_summarize_chain.py) of chapter_10_zh_TW.                        *)
(*                                                                         *)
(* A behaviour is one call of one entry point:                             *)
(*   - get_html_content_from_urls(df, number_of_urls), which selects the   *)
(*     URLs and hands them to ChromiumLoader.load;                         *)
(*   - ChromiumLoader(urls).load() called directly on any URL list;        *)
(*   - create_all_summaries(text_documents, ...), which gathers one        *)
(*     create_summary_from_text coroutine per document.                    *)
(* Every await on the network (a page fetch, a model call) is a point      *)
(* where the coroutine is suspended, so each one is split into the step    *)
(* that starts it and the step that receives its outcome.                  *)
(***************************************************************************)
EXTENDS Integers, Sequences, FiniteSets, TLC

VARIABLES
    entry,            \* which entry point this behaviour calls
    \* ---- content_collection.py
    df,               \* df[url_column].values: the URL field of each row
    number_of_urls,   \* the cap N
    urls,             \* ChromiumLoader.urls
    fpc,              \* position of get_html_content_from_urls / load
    started,          \* indices of urls whose ascrape_playwright was entered
    completed,        \* indices of urls whose ascrape_playwright has ended
    fetchLog,         \* history: <<i, content>> returned by the i-th fetch
    raw_text,         \* the list load() is building
    docs,             \* what load() returned
    \* ---- custom_summarize_chain.py
    text_documents,   \* the batch: per document its metadata and chunk count
    spc,              \* position of create_all_summaries
    tstate,           \* per document: state of its create_summary_from_text
    tresult,          \* per document: what its coroutine returned or raised
    replies,          \* history: per document, the model reply it received
    calls,            \* history: per document, the input_documents of each model call
    outer,            \* the future asyncio.gather returned
    summaries         \* what create_all_summaries returned

fvars == <<df, number_of_urls, urls, fpc, started, completed, fetchLog, raw_text, docs>>
svars == <<text_documents, spc, tstate, tresult, replies, calls, outer, summaries>>
vars == <<entry, df, number_of_urls, urls, fpc, started, completed, fetchLog, raw_text,
          docs, text_documents, spc, tstate, tresult, replies, calls, outer, summaries>>

-----------------------------------------------------------------------------
(* Bounds of the model *)
MaxRows == 4          \* rows of the search result / URLs given to the loader
MaxN == 4             \* largest cap tried
MaxDocs == 2          \* documents in a summary batch
MaxChunks == 2        \* chunks the splitter yields for one document

(* Input alphabets *)
URLValues == {"", "http://a", "http://b"}
Bodies == {"html_v1", "html_v2"}
DocMetadata == {"meta_src1", "meta_src2"}
ReplyMetadata == {"meta_llm", "meta_src1"}

BoundedSeq(S, n) == UNION {[1..k -> S] : k \in 0..n}
SetOf(s) == {s[i] : i \in DOMAIN s}
\* What a call has handed back: nothing yet, or a list
NoDocs == [returned |-> FALSE, list |-> <<>>]
ReturnedList(l) == [returned |-> TRUE, list |-> l]

-----------------------------------------------------------------------------
(* content_collection.py *)

\* values[:] : the cap is not applied
PyPrefixNoCap(s, n) == s

\* values[:number_of_urls] : a Python slice from the start
PyPrefix(s, n) ==
    LET len == Len(s)
        stop == IF n >= 0
                THEN (IF n < len THEN n ELSE len)
                ELSE (IF len + n > 0 THEN len + n ELSE 0)
    IN SubSeq(s, 1, stop)

\* the filter is left out
DropEmptyKeepsAll(s) == s

\* [url for url in urls if url != ""]
DropEmpty(s) == SelectSeq(s, LAMBDA u : u # "")

\* list(set(urls)) : the elements once each, in an order the set decides
ListsOfSet(S) == {p \in [1..Cardinality(S) -> S] : SetOf(p) = S}

\* lines 63-73 of get_html_content_from_urls
SelectedURLs(rows, n) == SetOf(DropEmpty(PyPrefix(rows, n)))

\* asyncio.gather over the URLs: every fetch may be entered at once
CanStartFetchTogether(i) == i \notin started

\* the list comprehension of load(): the next await is entered only when the
\* previous one has produced its element
CanStartFetch(i) == i = Len(raw_text) + 1 /\ i \notin started

\* the documents in reverse order
MakeDocsReversed(texts) ==
    [i \in DOMAIN texts |-> [page_content |-> texts[Len(texts) + 1 - i]]]

\* [Document(page_content=text) for text in raw_text]
MakeDocs(texts) == [i \in DOMAIN texts |-> [page_content |-> texts[i]]]

InitFetchSide ==
    /\ started = {}
    /\ completed = {}
    /\ fetchLog = {}
    /\ raw_text = <<>>
    /\ docs = NoDocs

IdleFetchSide ==
    /\ df = <<>>
    /\ number_of_urls = 0
    /\ urls = <<>>
    /\ fpc = "idle"
    /\ InitFetchSide

\* get_html_content_from_urls, lines 63-81: select the URLs, raise or build the loader
SelectURLs ==
    /\ entry = "get_html_content_from_urls"
    /\ fpc = "start"
    /\ LET S == SelectedURLs(df, number_of_urls)
       IN IF S = {}
          THEN /\ fpc' = "raised_no_valid_urls"
               /\ urls' = urls
          ELSE /\ fpc' = "loading"
               /\ urls' \in ListsOfSet(S)
    /\ UNCHANGED <<entry, df, number_of_urls, started, completed, fetchLog, raw_text, docs>>
    /\ UNCHANGED svars

\* load(), line 40: enter ascrape_playwright for the i-th URL
StartFetch(i) ==
    /\ fpc = "loading"
    /\ i \in DOMAIN urls
    /\ CanStartFetch(i)
    /\ started' = started \cup {i}
    /\ UNCHANGED <<entry, df, number_of_urls, urls, fpc, completed, fetchLog, raw_text, docs>>
    /\ UNCHANGED svars

\* load(), line 40: the i-th ascrape_playwright returns the page's HTML
FetchOk(i, body) ==
    /\ fpc = "loading"
    /\ i \in started \ completed
    /\ LET content == <<urls[i], body>>
       IN /\ raw_text' = Append(raw_text, content)
          /\ fetchLog' = fetchLog \cup {<<i, content>>}
    /\ completed' = completed \cup {i}
    /\ UNCHANGED <<entry, df, number_of_urls, urls, fpc, started, docs>>
    /\ UNCHANGED svars

\* load(), line 40: the i-th ascrape_playwright raises; nothing catches it in
\* load() nor in get_html_content_from_urls (line 82)
FetchRaise(i) ==
    /\ fpc = "loading"
    /\ i \in started \ completed
    /\ completed' = completed \cup {i}
    /\ fpc' = "raised_fetch"
    /\ UNCHANGED <<entry, df, number_of_urls, urls, started, fetchLog, raw_text, docs>>
    /\ UNCHANGED svars

\* load(), lines 40-42: every URL was iterated; wrap the texts and return
LoadReturn ==
    /\ fpc = "loading"
    /\ Len(raw_text) = Len(urls)
    /\ docs' = ReturnedList(MakeDocs(raw_text))
    /\ fpc' = "returned"
    /\ UNCHANGED <<entry, df, number_of_urls, urls, started, completed, fetchLog, raw_text>>
    /\ UNCHANGED svars

-----------------------------------------------------------------------------
(* custom_summarize_chain.py *)

\* A text document: its metadata and the number of chunks the splitter yields for it
Documents == [metadata : DocMetadata, nchunks : 0..MaxChunks]

\* What the model may answer: text that fits the DocumentSummary schema or not,
\* carrying some value (or none) for the metadata field
Replies ==
    {[schema_ok |-> FALSE, metadata |-> "absent"]}
        \cup {[schema_ok |-> TRUE, metadata |-> m] : m \in ReplyMetadata \cup {"absent"}}

NoSummary == [concise_summary |-> "-", metadata |-> "-"]
Pending == [kind |-> "pending", summary |-> NoSummary, error |-> "-"]
ReturnedNone == [kind |-> "none", summary |-> NoSummary, error |-> "-"]
Returned(s) == [kind |-> "summary", summary |-> s, error |-> "-"]
Raised(e) == [kind |-> "error", summary |-> NoSummary, error |-> e]

\* text_splitter.split_documents([document]), line 74: one Document per chunk
SplitDocuments(i, document) ==
    [j \in 1..document.nchunks |->
        [page_content |-> <<"chunk", i, j>>, metadata |-> document.metadata]]

\* the emptiness test never succeeds
NoChunksNever(split_docs) == Len(split_docs) < 0

\* len(split_docs) == 0, line 77
NoChunks(split_docs) == Len(split_docs) = 0

\* "input_documents": split_docs, every chunk stuffed into the prompt
InputDocumentsAll(split_docs) == split_docs

\* "input_documents": [first_document], lines 81 and 113
InputDocuments(split_docs) == <<split_docs[1]>>

\* parser.parse(summary_result["output_text"]), line 123: the DocumentSummary the
\* text describes (metadata defaults to {}, line 49), or an exception
ParseReply(i, reply) ==
    IF reply.schema_ok
    THEN Returned([concise_summary |-> <<"summary", i>>,
                   metadata |-> IF reply.metadata = "absent" THEN "{}" ELSE reply.metadata])
    ELSE Raised("OutputParserException")

\* the overwrite is left out
AttachMetadataSkipped(document_summary, document) == document_summary

\* document_summary.metadata = document.metadata, line 125
AttachMetadata(document_summary, document) ==
    [document_summary EXCEPT !.metadata = document.metadata]

\* the filter is left out
FilterNoneKeepsAll(results) == results

\* [summary for summary in results if summary is not None], line 166
FilterNone(results) == SelectSeq(results, LAMBDA r : r.kind # "none")

Finished(ts) == {i \in DOMAIN ts : ts[i] \in {"returned", "raised"}}

NoFuture == [state |-> "none", value |-> <<>>, exc |-> "-", from |-> 0]

\* asyncio.wait(..., return_when=FIRST_COMPLETED): the future is done as soon as
\* one task has finished
GatherFirstCompleted(o, ts, tr, i) ==
    IF o.state # "pending" THEN o
    ELSE IF ts[i] = "raised"
         THEN [state |-> "exception", value |-> <<>>, exc |-> tr[i].error, from |-> i]
    ELSE [state |-> "result", value |-> tr, exc |-> "-", from |-> 0]

\* asyncio.gather(*tasks, return_exceptions=True): exceptions are results
GatherReturnExceptions(o, ts, tr, i) ==
    IF o.state # "pending" THEN o
    ELSE IF Finished(ts) = DOMAIN ts
         THEN [state |-> "result", value |-> tr, exc |-> "-", from |-> 0]
    ELSE o

\* asyncio.gather(*tasks), line 163, called with the default return_exceptions=False:
\* the future it returns, after the task i has just finished. The first exception
\* is set on the future at once; the results are set when every task has finished.
GatherCallback(o, ts, tr, i) ==
    IF o.state # "pending" THEN o
    ELSE IF ts[i] = "raised"
         THEN [state |-> "exception", value |-> <<>>, exc |-> tr[i].error, from |-> i]
    ELSE IF Finished(ts) = DOMAIN ts
         THEN [state |-> "result", value |-> tr, exc |-> "-", from |-> 0]
    ELSE o

\* The event loop runs callbacks in the order they were scheduled: the tasks
\* gather scheduled at line 163 take their first step, in the order of the
\* documents, before any callback scheduled later (a reply from the network,
\* the wake-up of create_all_summaries) is run.
NextToStart(ts, i) == \A j \in DOMAIN ts : j < i => ts[j] # "scheduled"
FirstStepsDone(ts) == \A j \in DOMAIN ts : ts[j] # "scheduled"

IdleSummarySide ==
    /\ text_documents = <<>>
    /\ spc = "idle"
    /\ tstate = <<>>
    /\ tresult = <<>>
    /\ replies = <<>>
    /\ calls = <<>>
    /\ outer = NoFuture
    /\ summaries = NoDocs

\* create_all_summaries, lines 155-163: one coroutine per document, all handed to
\* gather, which schedules each as a task; then the function awaits the future
LaunchAll ==
    /\ entry = "create_all_summaries"
    /\ spc = "start"
    /\ spc' = "awaiting_gather"
    /\ tstate' = [i \in DOMAIN text_documents |-> "scheduled"]
    /\ outer' = IF Len(text_documents) = 0
                THEN [state |-> "result", value |-> <<>>, exc |-> "-", from |-> 0]
                ELSE [state |-> "pending", value |-> <<>>, exc |-> "-", from |-> 0]
    /\ UNCHANGED <<entry, text_documents, tresult, replies, calls, summaries>>
    /\ UNCHANGED fvars

\* A task ends with the result r: its state, and gather's callback on the future
Finish(i, how, r) ==
    /\ tstate' = [tstate EXCEPT ![i] = how]
    /\ tresult' = [tresult EXCEPT ![i] = r]
    /\ outer' = GatherCallback(outer, tstate', tresult', i)

\* create_summary_from_text, lines 74-116: split, return None when there is no
\* chunk, else send the first chunk to the model and await the reply
TaskStart(i) ==
    /\ i \in DOMAIN tstate
    /\ tstate[i] = "scheduled"
    /\ NextToStart(tstate, i)
    /\ LET split_docs == SplitDocuments(i, text_documents[i])
       IN IF NoChunks(split_docs)
          THEN /\ Finish(i, "returned", ReturnedNone)
               /\ UNCHANGED calls
          ELSE IF Len(split_docs) = 0
          THEN /\ Finish(i, "raised", Raised("IndexError"))   \* split_docs[0], line 81
               /\ UNCHANGED calls
          ELSE /\ calls' = [calls EXCEPT ![i] = Append(@, InputDocuments(split_docs))]
               /\ tstate' = [tstate EXCEPT ![i] = "awaiting_model"]
               /\ UNCHANGED <<tresult, outer>>
    /\ UNCHANGED <<entry, text_documents, spc, replies, summaries>>
    /\ UNCHANGED fvars

\* create_summary_from_text, lines 111-127: the model's reply arrives; parse it,
\* overwrite its metadata, return it; a reply that does not parse raises
ModelReply(i, reply) ==
    /\ i \in DOMAIN tstate
    /\ tstate[i] = "awaiting_model"
    /\ FirstStepsDone(tstate)
    /\ replies' = [replies EXCEPT ![i] = Append(@, reply)]
    /\ LET parsed == ParseReply(i, reply)
       IN IF parsed.kind = "error"
          THEN Finish(i, "raised", parsed)
          ELSE Finish(i, "returned",
                      Returned(AttachMetadata(parsed.summary, text_documents[i])))
    /\ UNCHANGED <<entry, text_documents, spc, calls, summaries>>
    /\ UNCHANGED fvars

\* create_summary_from_text, line 111: the model call itself raises
ModelCallRaises(i) ==
    /\ i \in DOMAIN tstate
    /\ tstate[i] = "awaiting_model"
    /\ FirstStepsDone(tstate)
    /\ Finish(i, "raised", Raised("APIError"))
    /\ UNCHANGED <<entry, text_documents, spc, replies, calls, summaries>>
    /\ UNCHANGED fvars

\* create_all_summaries, lines 163-173: the await on the future ends, with the
\* exception (raised on) or with the results (filtered, returned unless empty)
GatherResume ==
    /\ spc = "awaiting_gather"
    /\ FirstStepsDone(tstate)
    /\ outer.state \in {"result", "exception"}
    /\ IF outer.state = "exception"
       THEN /\ spc' = "raised_error"
            /\ UNCHANGED summaries
       ELSE LET kept == FilterNone(outer.value)
            IN IF Len(kept) = 0
               THEN /\ spc' = "raised_no_summaries"
                    /\ UNCHANGED summaries
               ELSE /\ spc' = "returned"
                    /\ summaries' = ReturnedList([k \in DOMAIN kept |-> kept[k].summary])
    /\ UNCHANGED <<entry, text_documents, tstate, tresult, replies, calls, outer>>
    /\ UNCHANGED fvars

-----------------------------------------------------------------------------
InitSelect ==
    /\ entry = "get_html_content_from_urls"
    /\ df \in BoundedSeq(URLValues, MaxRows)
    /\ number_of_urls \in 0..MaxN
    /\ urls = <<>>
    /\ fpc = "start"
    /\ InitFetchSide
    /\ IdleSummarySide

InitLoad ==
    /\ entry = "load"
    /\ df = <<>>
    /\ number_of_urls = 0
    /\ urls \in BoundedSeq(URLValues \ {""}, MaxRows)
    /\ fpc = "loading"
    /\ InitFetchSide
    /\ IdleSummarySide

InitSummaries ==
    /\ entry = "create_all_summaries"
    /\ text_documents \in BoundedSeq(Documents, MaxDocs)
    /\ spc = "start"
    /\ tstate = [i \in DOMAIN text_documents |-> "created"]
    /\ tresult = [i \in DOMAIN text_documents |-> Pending]
    /\ replies = [i \in DOMAIN text_documents |-> <<>>]
    /\ calls = [i \in DOMAIN text_documents |-> <<>>]
    /\ outer = NoFuture
    /\ summaries = NoDocs
    /\ IdleFetchSide

Init == InitSelect \/ InitLoad \/ InitSummaries

Next ==
    \/ SelectURLs
    \/ \E i \in 1..MaxRows : StartFetch(i)
    \/ \E i \in 1..MaxRows, body \in Bodies : FetchOk(i, body)
    \/ \E i \in 1..MaxRows : FetchRaise(i)
    \/ LoadReturn
    \/ LaunchAll
    \/ \E i \in 1..MaxDocs : TaskStart(i)
    \/ \E i \in 1..MaxDocs, reply \in Replies : ModelReply(i, reply)
    \/ \E i \in 1..MaxDocs : ModelCallRaises(i)
    \/ GatherResume

Spec == Init /\ [][Next]_vars
-----------------------------------------------------------------------------
(* Properties of content_collection.py *)

Handed == fpc \in {"loading", "returned", "raised_fetch"}
ExampleRows == <<"", "http://a", "http://a", "http://b">>
ExampleSelected == entry = "get_html_content_from_urls" /\ df = ExampleRows /\ Handed

\* The URL field of the first number_of_urls rows, read off the rows directly
FirstRowsFields == {df[i] : i \in {j \in DOMAIN df : j <= number_of_urls}}

\* The fetches that ended by raising: ended, and no content was logged for them
RaisedFetches == {i \in completed : ~ \E b \in Bodies : <<i, <<urls[i], b>>>> \in fetchLog}

\* C2: when load() returns, it returns exactly one document per URL, the i-th one
\* holding the content the fetch of the i-th URL returned; once a fetch has raised
\* the call has raised and no list of documents, partial or not, is returned.
C2_LoadAllOrNothing ==
    /\ fpc = "returned" =>
          /\ docs.returned
          /\ Len(docs.list) = Len(urls)
          /\ RaisedFetches = {}
          /\ \A i \in DOMAIN urls :
                /\ <<i, docs.list[i].page_content>> \in fetchLog
                /\ docs.list[i].page_content[1] = urls[i]
    /\ RaisedFetches # {} => fpc = "raised_fetch" /\ ~docs.returned
    /\ fpc # "returned" => ~docs.returned

C2_Witness ==
    /\ fpc = "returned"
    /\ Len(urls) >= 3
    /\ \E i, j \in DOMAIN urls :
          i < j /\ urls[i] # urls[j] /\ docs.list[i].page_content[2] # docs.list[j].page_content[2]

\* C3 as stated: for the rows ["", "http://a", "http://a", "http://b"] and the cap 3
\* the URLs selected for fetching are exactly {"http://a", "http://b"}.
C3_AsStated ==
    (ExampleSelected /\ number_of_urls = 3) => SetOf(urls) = {"http://a", "http://b"}

\* C3 amended: for those rows the cap 3 reads the first three rows only, so exactly
\* {"http://a"} is selected; {"http://a", "http://b"} is selected with the cap 4.
C3_ExampleSelection ==
    /\ (ExampleSelected /\ number_of_urls = 3) => SetOf(urls) = {"http://a"}
    /\ (ExampleSelected /\ number_of_urls = 4) => SetOf(urls) = {"http://a", "http://b"}

C3_Witness == ExampleSelected /\ number_of_urls = 3 /\ fpc = "returned"

\* C4: the URL list get_html_content_from_urls hands to the loader has no duplicate
\* and no empty string, holds only URL fields of the first N rows, and has between
\* 1 and N elements; when no such URL exists the function raises the no-valid-URLs
\* error and no fetch is ever started.
C4_HandedURLs ==
    entry = "get_html_content_from_urls" =>
        /\ Handed =>
              /\ \A i, j \in DOMAIN urls : urls[i] = urls[j] => i = j
              /\ \A i \in DOMAIN urls : urls[i] # "" /\ urls[i] \in FirstRowsFields
              /\ 1 <= Len(urls)
              /\ Len(urls) <= number_of_urls
        /\ FirstRowsFields \ {""} = {} =>
              /\ fpc \in {"start", "raised_no_valid_urls"}
              /\ started = {}
        /\ fpc = "raised_no_valid_urls" => FirstRowsFields \ {""} = {} /\ started = {}

C4_Witness ==
    /\ entry = "get_html_content_from_urls"
    /\ fpc = "loading"
    /\ started # {}
    /\ Len(urls) = 2
    /\ Len(df) = number_of_urls
    /\ "" \in FirstRowsFields
    /\ \E i, j \in DOMAIN df : i < j /\ j <= number_of_urls /\ df[i] = df[j] /\ df[i] # ""

-----------------------------------------------------------------------------
(* Properties of custom_summarize_chain.py *)

Delivered == spc \in {"returned", "raised_no_summaries", "raised_error"}
Tasks == DOMAIN text_documents
RaisedTasks == {i \in DOMAIN tstate : tstate[i] = "raised"}
NullTasks == {i \in DOMAIN tstate : tstate[i] = "returned" /\ tresult[i].kind = "none"}
SummaryTasks == {i \in DOMAIN tstate : tstate[i] = "returned" /\ tresult[i].kind = "summary"}
Unparsed == {i \in DOMAIN replies : replies[i] # <<>> /\ ~replies[i][1].schema_ok}

\* C1: when create_all_summaries has delivered its outcome and no invocation raised,
\* every invocation has ended; the outcome is the list of exactly the non-null
\* results, of length M minus the number of null results, unless all M results are
\* null (M = 0 included), and then it is the no-summaries error and no list.
C1_NonNullResults ==
    (Delivered /\ RaisedTasks = {}) =>
        /\ NullTasks \cup SummaryTasks = Tasks
        /\ IF NullTasks = Tasks
           THEN spc = "raised_no_summaries" /\ ~summaries.returned
           ELSE /\ spc = "returned"
                /\ summaries.returned
                /\ Len(summaries.list) = Len(text_documents) - Cardinality(NullTasks)
                /\ SetOf(summaries.list) = {tresult[i].summary : i \in SummaryTasks}

C1_Witness ==
    /\ spc = "returned"
    /\ Len(text_documents) = 2
    /\ Cardinality(NullTasks) = 1

\* C5: a DocumentSummary returned by create_summary_from_text carries the metadata
\* of the document it was made from, whatever the model's reply held in that field.
C5_MetadataFromDocument ==
    /\ \A i \in SummaryTasks : tresult[i].summary.metadata = text_documents[i].metadata
    /\ summaries.returned =>
          \A k \in DOMAIN summaries.list :
              \E i \in SummaryTasks :
                  /\ summaries.list[k] = tresult[i].summary
                  /\ summaries.list[k].metadata = text_documents[i].metadata

C5_Witness ==
    \E i \in SummaryTasks :
        /\ replies[i][1].metadata = "meta_llm"
        /\ text_documents[i].metadata # "meta_llm"
        /\ summaries.returned

\* C6: for a document with zero chunks create_summary_from_text returns None: it
\* never raises, and no model call is ever issued for that document.
C6_NoChunksReturnsNone ==
    \A i \in DOMAIN tstate :
        text_documents[i].nchunks = 0 =>
            /\ tstate[i] \in {"created", "scheduled", "returned"}
            /\ tstate[i] = "returned" => tresult[i] = ReturnedNone
            /\ calls[i] = <<>>
            /\ replies[i] = <<>>

C6_Witness ==
    \E i \in NullTasks : text_documents[i].nchunks = 0 /\ Delivered

\* C7: for a document with one or more chunks, create_summary_from_text makes a
\* single model call, whose input is the first chunk alone; no later chunk is in
\* any call.
C7_FirstChunkOnly ==
    \A i \in DOMAIN calls :
        /\ Len(calls[i]) <= 1
        /\ (text_documents[i].nchunks >= 1 /\ tstate[i] \notin {"created", "scheduled"})
               => Len(calls[i]) = 1
        /\ \A c \in DOMAIN calls[i] :
              /\ Len(calls[i][c]) = 1
              /\ calls[i][c][1].page_content = <<"chunk", i, 1>>

C7_Witness ==
    \E i \in DOMAIN calls :
        text_documents[i].nchunks >= 2 /\ calls[i] # <<>> /\ tstate[i] = "returned"

====
